---------------------------- MODULE Spec2Model ----------------------------
(***************************************************************************)
(* Model of the two components of the batched affine-addition core:        *)
(*   - CollisionState (src/src/collision_state.rs): three index-linked     *)
(*     queues (free, processing, unprocessed) over one entry pool;         *)
(*   - BatchAdder (src/src/batch_adder.rs): two-pass batch affine          *)
(*     addition with one shared field inversion.                           *)
(* SpecCS drives CollisionState, SpecBA drives BatchAdder.                 *)
(***************************************************************************)
EXTENDS Integers, Sequences, FiniteSets, TLC

VARIABLES
    \* ---- CollisionState fields
    entries,            \* Vec<Entry>: index -> [data, next]
    collision_count,    \* usize
    free,               \* Queue [head, tail]
    processing,         \* Queue [head, tail]
    unprocessed,        \* Queue [head, tail]
    \* ---- CollisionState: the driver's side and the observation of calls
    cs_fatal,           \* "" or the message of the panic that ended the run
    held,               \* indices returned by dequeue_unprocessed, not yet re-enqueued
    guarded,            \* every add/mark_unprocessed so far ran with the threshold check false
    cs_op,              \* the last public call: [name, arg, ret]
    adds,               \* number of add_unprocessed calls so far
    \* ---- BatchAdder fields
    inverse_state,      \* BaseField
    inverses,           \* Vec<BaseField>, length max_batch_cnt
    \* ---- BatchAdder: the caller's buffers and the observation of calls
    dest,               \* the dest slice of the last call, as the call left it
    src,                \* the src slice of the last call
    old_dest,           \* dest as it was handed to the last call
    ba_fatal,           \* "" or the message of the panic that ended the run
    ba_op,              \* the last public call: [name, dest_step, src_step, len]
    inversions,         \* field inversions performed since the last call began
    resets,             \* reset() calls made since the caller last took its slices
    pc,                 \* "idle", or the phase of a batch driven through the primitives
    cursor              \* the next index of that batch

cs_vars == <<entries, collision_count, free, processing, unprocessed,
             cs_fatal, held, guarded, cs_op, adds>>

ba_vars == <<inverse_state, inverses, dest, src, old_dest, ba_fatal, ba_op,
             inversions, resets, pc, cursor>>

vars == <<cs_vars, ba_vars>>

---------------------------------------------------------------------------
(* Bounds and constants of CollisionState *)

\* the argument of CollisionState::new
max_collision_count == 2

MaxSizeSingle == max_collision_count

\* let max_size = max_collision_count * 2
max_size == max_collision_count * 2

\* const NIL: u32 = u32::MAX (the all-ones word, written -1 here)
NIL == -1

\* usize::MAX, what 0usize - 1 wraps to when overflow checks are off; the word
\* is scaled to 8 bits, which keeps it above every count the pool can hold
UsizeMax == 255

\* the driver feeds at most this many points to add_unprocessed
MaxAdds == 5

\* the driver holds at most this many dequeued entries before it marks them
MaxHeld == 2

\* the payload (u32) of the next add_unprocessed: the running number of the point
NextPayload == adds + 1

Indices == 0 .. (max_size - 1)

---------------------------------------------------------------------------
(* CollisionState: private helpers *)

\* fn is_empty(queue)
is_empty(queue) == queue.head = NIL

\* fn clear(queue)
clear == [head |-> NIL, tail |-> NIL]

DequeueFromTail(queue) == queue.tail

\* fn dequeue(queue, entries): the index it returns (the queue is not empty)
dequeue_index(queue) == queue.head

DequeueKeepsTail(queue, ents) ==
    [head |-> ents[queue.head].next, tail |-> queue.tail]

\* fn dequeue(queue, entries): the queue it leaves
dequeue(queue, ents) ==
    IF queue.head = queue.tail
    THEN clear
    ELSE [head |-> ents[queue.head].next, tail |-> queue.tail]

\* fn enqueue(queue, entries, entry_index): the queue it leaves
enqueue(queue, entry_index) ==
    IF is_empty(queue)
    THEN [head |-> entry_index, tail |-> entry_index]
    ELSE [head |-> queue.head, tail |-> entry_index]

EnqueueEntriesKeepNext(queue, ents, entry_index) ==
    IF is_empty(queue)
    THEN ents
    ELSE [ents EXCEPT ![queue.tail].next = entry_index]

EnqueueEntriesFreshEntry(queue, ents, entry_index) ==
    LET linked == IF is_empty(queue)
                  THEN ents
                  ELSE [ents EXCEPT ![queue.tail].next = entry_index]
    IN  [linked EXCEPT ![entry_index] = [data |-> 0, next |-> NIL]]

\* fn enqueue(queue, entries, entry_index): the entries it leaves
enqueue_entries(queue, ents, entry_index) ==
    LET linked == IF is_empty(queue)
                  THEN ents
                  ELSE [ents EXCEPT ![queue.tail].next = entry_index]
    IN  [linked EXCEPT ![entry_index].next = NIL]

---------------------------------------------------------------------------
(* CollisionState: queries (pure reads) *)

\* pub fn get_entry_data(entry_index)
get_entry_data(entry_index) == entries[entry_index].data

\* pub fn needs_processing()
needs_processing == ~is_empty(unprocessed) \/ ~is_empty(processing)

ReachesMaxStrict == collision_count > max_collision_count

\* pub fn reaches_max_collision_count()
reaches_max_collision_count == collision_count >= max_collision_count

\* pub fn get_unprocessed_tail()
get_unprocessed_tail == unprocessed.tail

---------------------------------------------------------------------------
(* CollisionState: construction *)

\* pub fn new(max_collision_count)
CollisionState_new ==
    /\ entries = [i \in Indices |->
                    [data |-> 0,
                     next |-> IF i < max_size - 1 THEN i + 1 ELSE NIL]]
    /\ collision_count = 0
    /\ free = [head |-> 0, tail |-> max_size - 1]
    /\ processing = [head |-> NIL, tail |-> NIL]
    /\ unprocessed = [head |-> NIL, tail |-> NIL]

InitCS ==
    /\ CollisionState_new
    /\ cs_fatal = ""
    /\ held = {}
    /\ guarded = TRUE
    /\ cs_op = [name |-> "new", arg |-> NIL, ret |-> NIL]
    /\ adds = 0

---------------------------------------------------------------------------
(* CollisionState: public operations *)

\* panic!(msg) before anything was written
Panic(name, arg, msg) ==
    /\ cs_fatal' = msg
    /\ cs_op' = [name |-> name, arg |-> arg, ret |-> NIL]
    /\ UNCHANGED <<entries, collision_count, free, processing, unprocessed,
                   held, guarded>>

\* pub fn dequeue_unprocessed()
dequeue_unprocessed ==
    /\ UNCHANGED ba_vars
    /\ cs_fatal = ""
    /\ Cardinality(held) < MaxHeld
    /\ IF collision_count = 0
       THEN \* self.collision_count -= 1 on 0: panics with overflow checks on;
            \* wraps with them off, and dequeue then panics on the empty queue
            \/ Panic("dequeue_unprocessed", NIL, "attempt to subtract with overflow")
            \/ /\ is_empty(unprocessed)
               /\ cs_fatal' = "queue is empty"
               /\ collision_count' = UsizeMax
               /\ cs_op' = [name |-> "dequeue_unprocessed", arg |-> NIL, ret |-> NIL]
               /\ UNCHANGED <<entries, free, processing, unprocessed, held, guarded>>
       ELSE IF is_empty(unprocessed)
       THEN /\ cs_fatal' = "queue is empty"
            /\ collision_count' = collision_count - 1
            /\ cs_op' = [name |-> "dequeue_unprocessed", arg |-> NIL, ret |-> NIL]
            /\ UNCHANGED <<entries, free, processing, unprocessed, held, guarded>>
       ELSE /\ collision_count' = collision_count - 1
            /\ unprocessed' = dequeue(unprocessed, entries)
            /\ held' = held \cup {dequeue_index(unprocessed)}
            /\ cs_op' = [name |-> "dequeue_unprocessed", arg |-> NIL,
                         ret |-> dequeue_index(unprocessed)]
            /\ UNCHANGED <<entries, free, processing, cs_fatal, guarded>>
    /\ UNCHANGED adds

\* pub fn mark_entry_processing(entry_index)
mark_entry_processing ==
    /\ UNCHANGED ba_vars
    /\ cs_fatal = ""
    /\ \E entry_index \in held :
        /\ processing' = enqueue(processing, entry_index)
        /\ entries' = enqueue_entries(processing, entries, entry_index)
        /\ held' = held \ {entry_index}
        /\ cs_op' = [name |-> "mark_entry_processing", arg |-> entry_index,
                     ret |-> NIL]
        /\ UNCHANGED <<collision_count, free, unprocessed, cs_fatal, guarded, adds>>

MarkEntryUnprocessedNoCount ==
    /\ UNCHANGED ba_vars
    /\ cs_fatal = ""
    /\ \E entry_index \in held :
        /\ unprocessed' = enqueue(unprocessed, entry_index)
        /\ entries' = enqueue_entries(unprocessed, entries, entry_index)
        /\ held' = held \ {entry_index}
        /\ guarded' = (guarded /\ ~reaches_max_collision_count)
        /\ cs_op' = [name |-> "mark_entry_unprocessed", arg |-> entry_index,
                     ret |-> NIL]
        /\ UNCHANGED <<collision_count, free, processing, cs_fatal, adds>>

\* pub fn mark_entry_unprocessed(entry_index)
mark_entry_unprocessed ==
    /\ UNCHANGED ba_vars
    /\ cs_fatal = ""
    /\ \E entry_index \in held :
        /\ collision_count' = collision_count + 1
        /\ unprocessed' = enqueue(unprocessed, entry_index)
        /\ entries' = enqueue_entries(unprocessed, entries, entry_index)
        /\ held' = held \ {entry_index}
        /\ guarded' = (guarded /\ ~reaches_max_collision_count)
        /\ cs_op' = [name |-> "mark_entry_unprocessed", arg |-> entry_index,
                     ret |-> NIL]
        /\ UNCHANGED <<free, processing, cs_fatal, adds>>

AddUnprocessedCountFirst ==
    /\ UNCHANGED ba_vars
    /\ cs_fatal = ""
    /\ adds < MaxAdds
    /\ adds' = adds + 1
    /\ LET data == NextPayload IN
        IF is_empty(free)
        THEN /\ cs_fatal' = "No free slots available"
             /\ collision_count' = collision_count + 1
             /\ cs_op' = [name |-> "add_unprocessed", arg |-> data, ret |-> NIL]
             /\ UNCHANGED <<entries, free, processing, unprocessed, held, guarded>>
        ELSE LET index == dequeue_index(free)
                 stored == [entries EXCEPT ![index].data = data]
             IN  /\ free' = dequeue(free, entries)
                 /\ collision_count' = collision_count + 1
                 /\ unprocessed' = enqueue(unprocessed, index)
                 /\ entries' = enqueue_entries(unprocessed, stored, index)
                 /\ guarded' = (guarded /\ ~reaches_max_collision_count)
                 /\ cs_op' = [name |-> "add_unprocessed", arg |-> data,
                              ret |-> index]
                 /\ UNCHANGED <<processing, cs_fatal, held>>

\* pub fn add_unprocessed(data)
add_unprocessed ==
    /\ UNCHANGED ba_vars
    /\ cs_fatal = ""
    /\ adds < MaxAdds
    /\ adds' = adds + 1
    /\ LET data == NextPayload IN
        IF is_empty(free)
        THEN Panic("add_unprocessed", data, "No free slots available")
        ELSE LET index == dequeue_index(free)
                 stored == [entries EXCEPT ![index].data = data]
             IN  \* dequeue(free); entries[index].data = data;
                 \* mark_entry_unprocessed(index)
                 /\ free' = dequeue(free, entries)
                 /\ collision_count' = collision_count + 1
                 /\ unprocessed' = enqueue(unprocessed, index)
                 /\ entries' = enqueue_entries(unprocessed, stored, index)
                 /\ guarded' = (guarded /\ ~reaches_max_collision_count)
                 /\ cs_op' = [name |-> "add_unprocessed", arg |-> data,
                              ret |-> index]
                 /\ UNCHANGED <<processing, cs_fatal, held>>

FreeProcessingOverwrite ==
    /\ UNCHANGED ba_vars
    /\ cs_fatal = ""
    /\ cs_op' = [name |-> "free_processing", arg |-> NIL, ret |-> NIL]
    /\ IF is_empty(processing)
       THEN UNCHANGED <<entries, free, processing>>
       ELSE /\ free' = processing
            /\ entries' = entries
            /\ processing' = clear
    /\ UNCHANGED <<collision_count, unprocessed, cs_fatal, held, guarded, adds>>

FreeProcessingSplicesUnprocessed ==
    /\ UNCHANGED ba_vars
    /\ cs_fatal = ""
    /\ cs_op' = [name |-> "free_processing", arg |-> NIL, ret |-> NIL]
    /\ IF is_empty(unprocessed)
       THEN UNCHANGED <<entries, free, unprocessed>>
       ELSE /\ IF is_empty(free)
               THEN /\ free' = unprocessed
                    /\ entries' = entries
               ELSE /\ entries' = [entries EXCEPT
                                     ![free.tail].next = unprocessed.head]
                    /\ free' = [head |-> free.head, tail |-> unprocessed.tail]
            /\ unprocessed' = clear
    /\ UNCHANGED <<collision_count, processing, cs_fatal, held, guarded, adds>>

\* pub fn free_processing()
free_processing ==
    /\ UNCHANGED ba_vars
    /\ cs_fatal = ""
    /\ cs_op' = [name |-> "free_processing", arg |-> NIL, ret |-> NIL]
    /\ IF is_empty(processing)
       THEN UNCHANGED <<entries, free, processing>>
       ELSE /\ IF is_empty(free)
               THEN /\ free' = processing
                    /\ entries' = entries
               ELSE /\ entries' = [entries EXCEPT
                                     ![free.tail].next = processing.head]
                    /\ free' = [head |-> free.head, tail |-> processing.tail]
            /\ processing' = clear
    /\ UNCHANGED <<collision_count, unprocessed, cs_fatal, held, guarded, adds>>

NextCS ==
    \/ add_unprocessed
    \/ dequeue_unprocessed
    \/ mark_entry_processing
    \/ mark_entry_unprocessed
    \/ free_processing

---------------------------------------------------------------------------
(* BatchAdder: the base field and the curve *)

\* the argument of BatchAdder::new
max_batch_cnt == 2

\* <G1Affine as AffineCurve>::BaseField, scaled down to a prime field F_p with
\* p = 1 (mod 3), over which the curve below has odd order like G1
FieldP == 13

\* G1 is the curve y^2 = x^3 + 4 (a = 0)
CurveB == 4

Fp == 0 .. (FieldP - 1)

FAdd(a, b) == (a + b) % FieldP
FSub(a, b) == (a - b + FieldP) % FieldP
FMul(a, b) == (a * b) % FieldP
FNeg(a) == (FieldP - a) % FieldP

\* Field::inverse() of a nonzero element
FInv(a) == CHOOSE b \in Fp : FMul(a, b) = 1

\* G1Affine { x, y, infinity }
Affine(x, y) == [x |-> x, y |-> y, infinity |-> FALSE]

\* G1Affine::zero()
Zero == [x |-> 0, y |-> 1, infinity |-> TRUE]

OnCurve(p) ==
    p.infinity \/ FMul(p.y, p.y) = FAdd(FMul(p.x, FMul(p.x, p.x)), CurveB)

CurvePoints ==
    {Zero} \cup {pt \in {Affine(x, y) : x \in Fp, y \in Fp} : OnCurve(pt)}

Neg(p) == IF p.infinity THEN p ELSE Affine(p.x, FNeg(p.y))

\* the doubling formula: k = (3 * P.x^2 + a) / (2 * P.y), a = 0
PointDouble(p) ==
    IF p.infinity \/ p.y = 0
    THEN Zero
    ELSE LET k == FMul(FMul(3, FMul(p.x, p.x)), FInv(FMul(2, p.y)))
             rx == FSub(FSub(FMul(k, k), p.x), p.x)
             ry == FSub(FMul(k, FSub(p.x, rx)), p.y)
         IN  Affine(rx, ry)

\* the addition law: k = (Q.y - P.y) / (Q.x - P.x) when P is neither Q nor -Q,
\* R.x = k^2 - P.x - Q.x, R.y = k (P.x - R.x) - P.y
GroupAdd(p, q) ==
    IF p.infinity THEN q
    ELSE IF q.infinity THEN p
    ELSE IF p.x = q.x /\ FAdd(p.y, q.y) = 0 THEN Zero
    ELSE IF p.x = q.x THEN PointDouble(p)
    ELSE LET k == FMul(FSub(q.y, p.y), FInv(FSub(q.x, p.x)))
             rx == FSub(FSub(FMul(k, k), p.x), q.x)
             ry == FSub(FMul(k, FSub(p.x, rx)), p.y)
         IN  Affine(rx, ry)

---------------------------------------------------------------------------
(* BatchAdder: the operations, as functions of the adder                   *)
(* a = [inverse_state, inverses, inversions, resets, fatal]; slice index i *)
(* of the code is sequence index i + 1                                     *)

\* a failed assert!, unwrap() or index
Fail(a, msg) == [a EXCEPT !.fatal = msg]

\* pub fn new(max_batch_cnt)
BatchAdder_new ==
    [inverse_state |-> 1,
     inverses |-> [i \in 1 .. max_batch_cnt |-> 1],
     inversions |-> 0,
     resets |-> 0,
     fatal |-> ""]

InverseDiscarded(a) ==
    IF a.inverse_state = 0
    THEN Fail(a, "called Option::unwrap() on a None value")
    ELSE [a EXCEPT !.inversions = a.inversions + 1]

\* pub fn inverse()
inverse(a) ==
    IF a.inverse_state = 0
    THEN Fail(a, "called Option::unwrap() on a None value")
    ELSE [a EXCEPT !.inverse_state = FInv(a.inverse_state),
                   !.inversions = a.inversions + 1]

\* pub fn reset()
reset(a) == [a EXCEPT !.inverse_state = 1, !.resets = a.resets + 1]

PhaseOneStoresAfter(a, p, q, idx) ==
    IF ~(idx < Len(a.inverses))
    THEN Fail(a, "index exceeds the max_batch_cnt")
    ELSE IF p.infinity \/ q.infinity
    THEN a
    ELSE IF FSub(q.x, p.x) = 0 /\ FSub(q.y, p.y) # 0
    THEN a
    ELSE LET delta_x == IF FSub(q.x, p.x) = 0
                        THEN FAdd(q.y, q.y)
                        ELSE FSub(q.x, p.x)
         IN  IF a.inverse_state = 0
             THEN [a EXCEPT !.inverses[idx + 1] = 1,
                            !.inverse_state = delta_x]
             ELSE [a EXCEPT !.inverses[idx + 1] = FMul(a.inverse_state, delta_x),
                            !.inverse_state = FMul(a.inverse_state, delta_x)]

\* pub fn batch_add_phase_one(p, q, idx)
batch_add_phase_one(a, p, q, idx) ==
    IF ~(idx < Len(a.inverses))
    THEN Fail(a, "index exceeds the max_batch_cnt")
    ELSE IF p.infinity \/ q.infinity
    THEN a
    ELSE IF FSub(q.x, p.x) = 0 /\ FSub(q.y, p.y) # 0
    THEN a
    ELSE LET delta_x == IF FSub(q.x, p.x) = 0
                        THEN FAdd(q.y, q.y)
                        ELSE FSub(q.x, p.x)
         IN  IF a.inverse_state = 0
             THEN [a EXCEPT !.inverses[idx + 1] = 1,
                            !.inverse_state = delta_x]
             ELSE [a EXCEPT !.inverses[idx + 1] = a.inverse_state,
                            !.inverse_state = FMul(a.inverse_state, delta_x)]

PhaseTwoTwiceSquare(a, p, q, idx) ==
    IF ~(idx < Len(a.inverses))
    THEN [a |-> Fail(a, "index exceeds the max_batch_cnt"), p |-> p]
    ELSE IF p.infinity \/ q.infinity
    THEN [a |-> a, p |-> IF ~q.infinity THEN q ELSE p]
    ELSE IF FSub(q.x, p.x) = 0 /\ FSub(q.y, p.y) # 0
    THEN [a |-> a, p |-> Zero]
    ELSE LET _inverse == FMul(a.inverses[idx + 1], a.inverse_state)
             doubling == FSub(q.x, p.x) = 0
             delta_y == IF doubling
                        THEN FMul(2, FMul(q.x, q.x))
                        ELSE FSub(q.y, p.y)
             delta_x == IF doubling THEN FAdd(q.y, q.y) ELSE FSub(q.x, p.x)
             s  == FMul(delta_y, _inverse)
             px == FSub(FSub(FMul(s, s), q.x), p.x)
             py == FSub(FMul(s, FSub(q.x, px)), q.y)
         IN  [a |-> [a EXCEPT !.inverse_state = FMul(a.inverse_state, delta_x)],
              p |-> [x |-> px, y |-> py, infinity |-> p.infinity]]

PhaseTwoOwnInverse(a, p, q, idx) ==
    IF ~(idx < Len(a.inverses))
    THEN [a |-> Fail(a, "index exceeds the max_batch_cnt"), p |-> p]
    ELSE IF p.infinity \/ q.infinity
    THEN [a |-> a, p |-> IF ~q.infinity THEN q ELSE p]
    ELSE IF FSub(q.x, p.x) = 0 /\ FSub(q.y, p.y) # 0
    THEN [a |-> a, p |-> Zero]
    ELSE LET doubling == FSub(q.x, p.x) = 0
             delta_y == IF doubling
                        THEN FMul(3, FMul(q.x, q.x))
                        ELSE FSub(q.y, p.y)
             delta_x == IF doubling THEN FAdd(q.y, q.y) ELSE FSub(q.x, p.x)
             s  == FMul(delta_y, FInv(delta_x))
             px == FSub(FSub(FMul(s, s), q.x), p.x)
             py == FSub(FMul(s, FSub(q.x, px)), q.y)
         IN  [a |-> [a EXCEPT !.inverse_state = FMul(a.inverse_state, delta_x),
                              !.inversions = a.inversions + 1],
              p |-> [x |-> px, y |-> py, infinity |-> p.infinity]]

PhaseTwoNegationFolds(a, p, q, idx) ==
    IF ~(idx < Len(a.inverses))
    THEN [a |-> Fail(a, "index exceeds the max_batch_cnt"), p |-> p]
    ELSE IF p.infinity \/ q.infinity
    THEN [a |-> a, p |-> IF ~q.infinity THEN q ELSE p]
    ELSE IF FSub(q.x, p.x) = 0 /\ FSub(q.y, p.y) # 0
    THEN [a |-> [a EXCEPT !.inverse_state =
                     FMul(a.inverse_state, FSub(q.x, p.x))],
          p |-> Zero]
    ELSE LET _inverse == FMul(a.inverses[idx + 1], a.inverse_state)
             doubling == FSub(q.x, p.x) = 0
             delta_y == IF doubling
                        THEN FMul(3, FMul(q.x, q.x))
                        ELSE FSub(q.y, p.y)
             delta_x == IF doubling THEN FAdd(q.y, q.y) ELSE FSub(q.x, p.x)
             s  == FMul(delta_y, _inverse)
             px == FSub(FSub(FMul(s, s), q.x), p.x)
             py == FSub(FMul(s, FSub(q.x, px)), q.y)
         IN  [a |-> [a EXCEPT !.inverse_state = FMul(a.inverse_state, delta_x)],
              p |-> [x |-> px, y |-> py, infinity |-> p.infinity]]

PhaseTwoKeepsState(a, p, q, idx) ==
    IF ~(idx < Len(a.inverses))
    THEN [a |-> Fail(a, "index exceeds the max_batch_cnt"), p |-> p]
    ELSE IF p.infinity \/ q.infinity
    THEN [a |-> a, p |-> IF ~q.infinity THEN q ELSE p]
    ELSE IF FSub(q.x, p.x) = 0 /\ FSub(q.y, p.y) # 0
    THEN [a |-> a, p |-> Zero]
    ELSE LET _inverse == FMul(a.inverses[idx + 1], a.inverse_state)
             doubling == FSub(q.x, p.x) = 0
             delta_y == IF doubling
                        THEN FMul(3, FMul(q.x, q.x))
                        ELSE FSub(q.y, p.y)
             s  == FMul(delta_y, _inverse)
             px == FSub(FSub(FMul(s, s), q.x), p.x)
             py == FSub(FMul(s, FSub(q.x, px)), q.y)
         IN  [a |-> a,
              p |-> [x |-> px, y |-> py, infinity |-> p.infinity]]

\* pub fn batch_add_phase_two(p, q, idx): the adder and the point *p it leaves
batch_add_phase_two(a, p, q, idx) ==
    IF ~(idx < Len(a.inverses))
    THEN [a |-> Fail(a, "index exceeds the max_batch_cnt"), p |-> p]
    ELSE IF p.infinity \/ q.infinity
    THEN [a |-> a, p |-> IF ~q.infinity THEN q ELSE p]
    ELSE IF FSub(q.x, p.x) = 0 /\ FSub(q.y, p.y) # 0
    THEN [a |-> a, p |-> Zero]
    ELSE LET _inverse == FMul(a.inverses[idx + 1], a.inverse_state)
             doubling == FSub(q.x, p.x) = 0
             delta_y == IF doubling
                        THEN FMul(3, FMul(q.x, q.x))
                        ELSE FSub(q.y, p.y)
             delta_x == IF doubling THEN FAdd(q.y, q.y) ELSE FSub(q.x, p.x)
             s  == FMul(delta_y, _inverse)
             px == FSub(FSub(FMul(s, s), q.x), p.x)
             py == FSub(FMul(s, FSub(q.x, px)), q.y)
         IN  [a |-> [a EXCEPT !.inverse_state = FMul(a.inverse_state, delta_x)],
              p |-> [x |-> px, y |-> py, infinity |-> p.infinity]]

\* for i in 0..len { self.batch_add_phase_one(&dest[i * dest_step], &src[i * src_step], i) }
RECURSIVE PhaseOneLoop(_, _, _, _, _, _, _)
PhaseOneLoop(a, d, dest_step, s, src_step, i, len) ==
    IF i >= len \/ a.fatal # ""
    THEN a
    ELSE PhaseOneLoop(batch_add_phase_one(a, d[i * dest_step + 1], s[i * src_step + 1], i),
                      d, dest_step, s, src_step, i + 1, len)

RECURSIVE PhaseTwoLoopStopsEarly(_, _, _, _, _)
PhaseTwoLoopStopsEarly(st, dest_step, s, src_step, i) ==
    IF i < 1 \/ st.a.fatal # ""
    THEN st
    ELSE LET r == batch_add_phase_two(st.a, st.dest[i * dest_step + 1],
                           s[i * src_step + 1], i)
         IN  PhaseTwoLoopStopsEarly(
                 [a |-> r.a,
                  dest |-> [st.dest EXCEPT ![i * dest_step + 1] = r.p]],
                 dest_step, s, src_step, i - 1)

\* for i in (0..len).rev() { self.batch_add_phase_two(&mut dest[i * dest_step], &src[i * src_step], i) }
RECURSIVE PhaseTwoLoop(_, _, _, _, _)
PhaseTwoLoop(st, dest_step, s, src_step, i) ==
    IF i < 0 \/ st.a.fatal # ""
    THEN st
    ELSE LET r == batch_add_phase_two(st.a, st.dest[i * dest_step + 1],
                           s[i * src_step + 1], i)
         IN  PhaseTwoLoop([a |-> r.a,
                           dest |-> [st.dest EXCEPT ![i * dest_step + 1] = r.p]],
                          dest_step, s, src_step, i - 1)

RECURSIVE PhaseTwoLoopForward(_, _, _, _, _, _)
PhaseTwoLoopForward(st, dest_step, s, src_step, i, len) ==
    IF i >= len \/ st.a.fatal # ""
    THEN st
    ELSE LET r == batch_add_phase_two(st.a, st.dest[i * dest_step + 1],
                           s[i * src_step + 1], i)
         IN  PhaseTwoLoopForward(
                 [a |-> r.a,
                  dest |-> [st.dest EXCEPT ![i * dest_step + 1] = r.p]],
                 dest_step, s, src_step, i + 1, len)

RunBatchForward(a, d, dest_step, s, src_step, len) ==
    LET one == PhaseOneLoop(reset(a), d, dest_step, s, src_step, 0, len)
        inv == IF one.fatal # "" THEN one ELSE inverse(one)
    IN  PhaseTwoLoopForward([a |-> inv, dest |-> d], dest_step, s, src_step,
                            0, len)

\* reset(); phase one left to right; inverse(); phase two right to left
RunBatch(a, d, dest_step, s, src_step, len) ==
    LET one == PhaseOneLoop(reset(a), d, dest_step, s, src_step, 0, len)
        inv == IF one.fatal # "" THEN one ELSE inverse(one)
    IN  PhaseTwoLoop([a |-> inv, dest |-> d], dest_step, s, src_step, len - 1)

BatchAddNoCapacityCheck(a, d, s) ==
    IF Len(d) # Len(s)
    THEN [a |-> Fail(a, "length of dest and src don't match!"), dest |-> d]
    ELSE RunBatch(a, d, 1, s, 1, Len(d))

\* pub fn batch_add(dest, src): the adder and the dest it leaves
batch_add(a, d, s) ==
    IF Len(d) # Len(s)
    THEN [a |-> Fail(a, "length of dest and src don't match!"), dest |-> d]
    ELSE IF ~(Len(d) <= Len(a.inverses))
    THEN [a |-> Fail(a, "input length exceeds the max_batch_cnt"), dest |-> d]
    ELSE RunBatch(a, d, 1, s, 1, Len(d))

BatchAddStepNUnitStride(a, d, dest_step, s, src_step, len, overflow_checks) ==
    IF len = 0
    THEN [a |-> Fail(a, IF overflow_checks
                        THEN "attempt to subtract with overflow"
                        ELSE "insufficient entries in dest array"),
          dest |-> d]
    ELSE IF ~(Len(d) > (len - 1) * dest_step)
    THEN [a |-> Fail(a, "insufficient entries in dest array"), dest |-> d]
    ELSE IF ~(Len(s) > (len - 1) * src_step)
    THEN [a |-> Fail(a, "insufficient entries in src array"), dest |-> d]
    ELSE IF ~(len <= Len(a.inverses))
    THEN [a |-> Fail(a, "input length exceeds the max_batch_cnt"), dest |-> d]
    ELSE RunBatch(a, d, 1, s, src_step, len)

\* pub fn batch_add_step_n(dest, dest_step, src, src_step, len).
\* (len - 1) with len = 0 panics when overflow checks are on; with them off it
\* wraps to usize::MAX, (len - 1) * step to usize::MAX - step + 1 for the
\* steps 1 <= step modelled here, and the first assert fails
batch_add_step_n(a, d, dest_step, s, src_step, len, overflow_checks) ==
    IF len = 0
    THEN [a |-> Fail(a, IF overflow_checks
                        THEN "attempt to subtract with overflow"
                        ELSE "insufficient entries in dest array"),
          dest |-> d]
    ELSE IF ~(Len(d) > (len - 1) * dest_step)
    THEN [a |-> Fail(a, "insufficient entries in dest array"), dest |-> d]
    ELSE IF ~(Len(s) > (len - 1) * src_step)
    THEN [a |-> Fail(a, "insufficient entries in src array"), dest |-> d]
    ELSE IF ~(len <= Len(a.inverses))
    THEN [a |-> Fail(a, "input length exceeds the max_batch_cnt"), dest |-> d]
    ELSE RunBatch(a, d, dest_step, s, src_step, len)

---------------------------------------------------------------------------
(* BatchAdder: the inputs of the calls *)

\* slices longer than max_batch_cnt reach the capacity asserts
MaxLen == max_batch_cnt + 1

\* the strides of batch_add_step_n
Steps == {1, 2}

PtP == Affine(7, 3)
PtQ == Affine(2, 5)

\* identity, doubling (P, P), negation (P, -P), ordinary (Q, P) and (Q, -P)
DestPoints == {Zero, PtP, PtQ}
SrcPoints == {Zero, PtP, Neg(PtP)}

SlicesUpTo(S, n) == UNION {[1 .. k -> S] : k \in 0 .. n}

\* every slice over the small point sets, and every one-point slice of the curve
DestSlices == SlicesUpTo(DestPoints, MaxLen) \cup {<<pt>> : pt \in CurvePoints}
SrcSlices == SlicesUpTo(SrcPoints, MaxLen) \cup {<<pt>> : pt \in CurvePoints}

\* the buffers handed to batch_add_step_n: identity (0, P), doubling (Q, Q),
\* ordinary (Q, P)
StrideDestPoints == {Zero, PtQ}
StrideSrcPoints == {PtP, PtQ}
StrideDestSlices == SlicesUpTo(StrideDestPoints, MaxLen)
StrideSrcSlices == SlicesUpTo(StrideSrcPoints, MaxLen)

---------------------------------------------------------------------------
(* BatchAdder: construction and calls *)

InitBA ==
    /\ inverse_state = BatchAdder_new.inverse_state
    /\ inverses = BatchAdder_new.inverses
    /\ dest = <<>>
    /\ src = <<>>
    /\ old_dest = <<>>
    /\ ba_fatal = ""
    /\ ba_op = [name |-> "new", dest_step |-> 1, src_step |-> 1, len |-> 0]
    /\ inversions = 0
    /\ resets = 0
    /\ pc = "idle"
    /\ cursor = 0

\* the caller holds no slices of an earlier call
Ready == ba_fatal = "" /\ pc = "idle" /\ ba_op.name \in {"new", "release"}

\* the adder as a call finds it
Adder(count) ==
    [inverse_state |-> inverse_state, inverses |-> inverses,
     inversions |-> count, resets |-> resets, fatal |-> ""]

\* what a call leaves in the adder
Leaves(a) ==
    /\ inverse_state' = a.inverse_state
    /\ inverses' = a.inverses
    /\ inversions' = a.inversions
    /\ resets' = a.resets
    /\ ba_fatal' = a.fatal

BatchAddCall ==
    /\ UNCHANGED cs_vars
    /\ Ready
    /\ \E d \in DestSlices, s \in SrcSlices :
        LET r == batch_add(Adder(0), d, s)
        IN  /\ Leaves(r.a)
            /\ dest' = r.dest
            /\ src' = s
            /\ old_dest' = d
            /\ ba_op' = [name |-> "batch_add", dest_step |-> 1, src_step |-> 1,
                         len |-> Len(d)]
            /\ UNCHANGED <<pc, cursor>>

BatchAddStepNCall ==
    /\ UNCHANGED cs_vars
    /\ Ready
    /\ \E d \in StrideDestSlices, s \in StrideSrcSlices, dest_step \in Steps,
          src_step \in Steps, len \in 0 .. MaxLen :
       \E overflow_checks \in (IF len = 0 THEN BOOLEAN ELSE {TRUE}) :
        LET r == batch_add_step_n(Adder(0), d, dest_step, s, src_step, len,
                               overflow_checks)
        IN  /\ Leaves(r.a)
            /\ dest' = r.dest
            /\ src' = s
            /\ old_dest' = d
            /\ ba_op' = [name |-> "batch_add_step_n", dest_step |-> dest_step,
                         src_step |-> src_step, len |-> len]
            /\ UNCHANGED <<pc, cursor>>

\* The driver runs a batch through the primitives: reset(), phase one for the
\* indices 0 .. n-1, inverse(), phase two for n-1 .. 0.
ResetCall ==
    /\ UNCHANGED cs_vars
    /\ Ready
    /\ \E d \in DestSlices, s \in SrcSlices :
        /\ Len(d) = Len(s)
        /\ Len(d) <= max_batch_cnt
        /\ Leaves(reset(Adder(0)))
        /\ dest' = d
        /\ src' = s
        /\ old_dest' = d
        /\ ba_op' = [name |-> "reset", dest_step |-> 1, src_step |-> 1,
                     len |-> Len(d)]
        /\ pc' = "one"
        /\ cursor' = 0

\* The driver runs a batch through the primitives without reset(): phase one
\* for the indices 0 .. n-1, inverse(), phase two for n-1 .. 0, as the unit
\* tests call the primitives on a fresh adder. This step hands it the slices.
BeginCall ==
    /\ UNCHANGED cs_vars
    /\ Ready
    /\ \E d \in DestSlices, s \in SrcSlices :
        /\ Len(d) = Len(s)
        /\ Len(d) <= max_batch_cnt
        /\ Leaves(Adder(0))
        /\ dest' = d
        /\ src' = s
        /\ old_dest' = d
        /\ ba_op' = [name |-> "begin", dest_step |-> 1, src_step |-> 1,
                     len |-> Len(d)]
        /\ pc' = "one"
        /\ cursor' = 0

PhaseOneCall ==
    /\ UNCHANGED cs_vars
    /\ ba_fatal = ""
    /\ pc = "one"
    /\ cursor < Len(dest)
    /\ Leaves(batch_add_phase_one(Adder(inversions), dest[cursor + 1], src[cursor + 1], cursor))
    /\ ba_op' = [ba_op EXCEPT !.name = "batch_add_phase_one"]
    /\ cursor' = cursor + 1
    /\ UNCHANGED <<dest, src, old_dest, pc>>

InverseCall ==
    /\ UNCHANGED cs_vars
    /\ ba_fatal = ""
    /\ pc = "one"
    /\ cursor = Len(dest)
    /\ Leaves(inverse(Adder(inversions)))
    /\ ba_op' = [ba_op EXCEPT !.name = "inverse"]
    /\ pc' = IF cursor = 0 THEN "idle" ELSE "two"
    /\ UNCHANGED <<dest, src, old_dest, cursor>>

PhaseTwoCall ==
    /\ UNCHANGED cs_vars
    /\ ba_fatal = ""
    /\ pc = "two"
    /\ cursor > 0
    /\ LET r == batch_add_phase_two(Adder(inversions), dest[cursor], src[cursor], cursor - 1)
       IN  /\ Leaves(r.a)
           /\ dest' = [dest EXCEPT ![cursor] = r.p]
    /\ ba_op' = [ba_op EXCEPT !.name = "batch_add_phase_two"]
    /\ cursor' = cursor - 1
    /\ pc' = IF cursor = 1 THEN "idle" ELSE "two"
    /\ UNCHANGED <<src, old_dest>>

\* the call has returned and the caller takes its slices back
Release ==
    /\ UNCHANGED cs_vars
    /\ ba_fatal = ""
    /\ pc = "idle"
    /\ ba_op.name \notin {"new", "release"}
    /\ dest' = <<>>
    /\ src' = <<>>
    /\ old_dest' = <<>>
    /\ inversions' = 0
    /\ resets' = 0
    /\ ba_op' = [name |-> "release", dest_step |-> 1, src_step |-> 1, len |-> 0]
    /\ UNCHANGED <<inverse_state, inverses, ba_fatal, pc, cursor>>

NextBA ==
    \/ BatchAddCall
    \/ BatchAddStepNCall
    \/ ResetCall
    \/ BeginCall
    \/ PhaseOneCall
    \/ InverseCall
    \/ PhaseTwoCall
    \/ Release

---------------------------------------------------------------------------
(* Specifications *)

Init == InitCS /\ InitBA

SpecCS == Init /\ [][NextCS]_vars

SpecBA == Init /\ [][NextBA]_vars

---------------------------------------------------------------------------
(* CollisionState: what the queues hold *)

\* the indices met from index i by following next links (at most fuel of them)
RECURSIVE Walk(_, _, _)
Walk(ents, i, fuel) ==
    IF i = NIL \/ fuel = 0
    THEN <<>>
    ELSE <<i>> \o Walk(ents, ents[i].next, fuel - 1)

\* the entries linked into a queue, from its head
Linked(ents, queue) == Walk(ents, queue.head, max_size + 1)

QueueSeq(queue) == Linked(entries, queue)

\* free, processing and unprocessed laid end to end
AllLinked == QueueSeq(free) \o QueueSeq(processing) \o QueueSeq(unprocessed)

\* the indices that occur exactly once in seq
OnceIn(seq) ==
    {i \in Indices : \E k \in 1 .. Len(seq) :
        seq[k] = i /\ \A m \in 1 .. Len(seq) : seq[m] = i => m = k}

---------------------------------------------------------------------------
(* Claims on CollisionState, checked under SpecCS *)

\* C2 as stated: between any two public operations every pool index is linked
\* into exactly one of free, processing, unprocessed, and the three sizes sum
\* to 2 * max_collision_count.
C2_PartitionAlways ==
    LET all == AllLinked
    IN  /\ OnceIn(all) = Indices
        /\ Len(all) = max_size

\* C2 amended: every pool index is either linked into exactly one of the three
\* queues or is held by the driver (returned by dequeue_unprocessed and not yet
\* marked), never both; the three sizes plus the number of held indices sum to
\* 2 * max_collision_count; with no index held the queues partition the pool.
C2_PartitionOrHeld ==
    LET all == AllLinked
    IN  /\ OnceIn(all) = Indices \ held
        /\ Len(all) + Cardinality(held) = max_size
        /\ held = {} => C2_PartitionAlways

C2_Witness ==
    /\ cs_op.name = "dequeue_unprocessed"
    /\ cs_fatal = ""
    /\ held # {}
    /\ ~is_empty(free) /\ ~is_empty(processing) /\ ~is_empty(unprocessed)

\* C3: after any sequence of operations that follows the driver protocol and
\* ends without a fatal error, collision_count is the number of entries
\* reachable from unprocessed.head by next links.
C3_CountMatchesUnprocessed ==
    cs_fatal = "" => collision_count = Len(QueueSeq(unprocessed))

C3_Witness ==
    /\ cs_op.name = "mark_entry_unprocessed"
    /\ cs_fatal = ""
    /\ collision_count = 2
    /\ held # {}

\* C4: add_unprocessed called with free empty ends in a fatal error and
\* modifies no entry, no queue and not collision_count.
C4_ExhaustionFatalAndPure ==
    [][(adds' # adds /\ is_empty(free)) =>
        /\ cs_fatal' = "No free slots available"
        /\ entries' = entries
        /\ free' = free /\ processing' = processing /\ unprocessed' = unprocessed
        /\ collision_count' = collision_count]_vars

C4_Witness ==
    /\ cs_op.name = "add_unprocessed"
    /\ cs_fatal = "No free slots available"
    /\ is_empty(free)
    /\ collision_count + Len(QueueSeq(processing)) + Cardinality(held) = max_size

\* C8: free_processing leaves processing empty and free holding its previous
\* entries in order followed by those of processing in order; unprocessed,
\* collision_count and every data field are unchanged; with processing empty
\* the call changes nothing.
C8_FreeProcessingSplices ==
    [][cs_op'.name = "free_processing" =>
        /\ is_empty(processing')
        /\ processing'.tail = NIL
        /\ Linked(entries', free') =
               Linked(entries, free) \o Linked(entries, processing)
        /\ Linked(entries', unprocessed') = Linked(entries, unprocessed)
        /\ unprocessed' = unprocessed
        /\ collision_count' = collision_count
        /\ \A i \in Indices : entries'[i].data = entries[i].data
        /\ is_empty(processing) =>
               /\ entries' = entries
               /\ free' = free
               /\ processing' = processing
               /\ held' = held]_vars

C8_Witness ==
    /\ cs_op.name = "free_processing"
    /\ is_empty(processing)
    /\ Len(QueueSeq(free)) = max_size
    /\ QueueSeq(free)[1] = 2
    /\ QueueSeq(free)[max_size] = 0

---------------------------------------------------------------------------
(* Claims on BatchAdder, checked under SpecBA *)

\* the slices of the last call fit batch_add
FitsBatchAdd == Len(old_dest) = Len(src) /\ Len(old_dest) <= max_batch_cnt

\* the arguments of the last call fit batch_add_step_n
FitsStepN ==
    /\ ba_op.len >= 1
    /\ ba_op.len <= max_batch_cnt
    /\ Len(old_dest) > (ba_op.len - 1) * ba_op.dest_step
    /\ Len(src) > (ba_op.len - 1) * ba_op.src_step

\* pair i of the last batch_add adds a point to itself / two points of different x
IsDoublingPair(i) ==
    ~old_dest[i].infinity /\ ~src[i].infinity /\ old_dest[i] = src[i]
IsOrdinaryPair(i) ==
    ~old_dest[i].infinity /\ ~src[i].infinity /\ old_dest[i].x # src[i].x

\* C1: batch_add on equal-length slices of at most max_batch_cnt points returns
\* and leaves in every dest[i] the group sum of the original dest[i] and src[i],
\* identity operands included.
C1_BatchAddIsGroupSum ==
    (ba_op.name = "batch_add" /\ FitsBatchAdd) =>
        /\ ba_fatal = ""
        /\ Len(dest) = Len(old_dest)
        /\ \A i \in 1 .. Len(dest) : dest[i] = GroupAdd(old_dest[i], src[i])

C1_Witness ==
    /\ ba_op.name = "batch_add"
    /\ ba_fatal = ""
    /\ Len(dest) = max_batch_cnt
    /\ \E i, j \in 1 .. Len(dest) :
        /\ old_dest[i].infinity /\ ~src[i].infinity /\ dest[i] = src[i]
        /\ IsOrdinaryPair(j)

\* C5: batch_add with slices of different lengths, or longer than
\* max_batch_cnt, ends in a fatal error and changes neither dest nor
\* inverse_state nor inverses.
C5_FailBeforeMutating ==
    [][(Ready /\ ba_op'.name = "batch_add" /\ ~FitsBatchAdd') =>
        /\ ba_fatal' # ""
        /\ dest' = old_dest'
        /\ inverse_state' = inverse_state
        /\ inverses' = inverses]_vars

C5_Witness ==
    /\ ba_op.name = "batch_add"
    /\ ba_fatal = "input length exceeds the max_batch_cnt"
    /\ Len(old_dest) = Len(src)
    /\ \A i \in 1 .. Len(old_dest) : IsOrdinaryPair(i)

\* C6: batch_add_step_n with len >= 1, len <= max_batch_cnt and buffers long
\* enough returns, sets dest[i * dest_step] to old dest[i * dest_step] +
\* src[i * src_step] for i in 0 .. len-1 and leaves every other index of dest
\* as it was.
C6_StridedSumAndFrame ==
    (ba_op.name = "batch_add_step_n" /\ FitsStepN) =>
        /\ ba_fatal = ""
        /\ Len(dest) = Len(old_dest)
        /\ \A i \in 0 .. (ba_op.len - 1) :
               dest[i * ba_op.dest_step + 1] =
                   GroupAdd(old_dest[i * ba_op.dest_step + 1],
                            src[i * ba_op.src_step + 1])
        /\ \A k \in 1 .. Len(dest) :
               (\A i \in 0 .. (ba_op.len - 1) : k # i * ba_op.dest_step + 1)
                   => dest[k] = old_dest[k]

C6_Witness ==
    /\ ba_op.name = "batch_add_step_n"
    /\ ba_fatal = ""
    /\ ba_op.len = 2 /\ ba_op.dest_step = 2 /\ ba_op.src_step = 1
    /\ Len(dest) = 3
    /\ dest[1] # old_dest[1] /\ dest[3] # old_dest[3]
    /\ ~old_dest[2].infinity /\ dest[2] = old_dest[2]

\* C7: every batch_add or batch_add_step_n call that returns has performed
\* exactly one field inversion, whatever the batch size and however many pairs
\* are skipped.
C7_SingleInversion ==
    (ba_op.name \in {"batch_add", "batch_add_step_n"} /\ ba_fatal = "") =>
        inversions = 1

C7_Witness ==
    /\ ba_op.name = "batch_add"
    /\ ba_fatal = ""
    /\ inversions = 1
    /\ Len(dest) = max_batch_cnt
    /\ \A i \in 1 .. Len(dest) : IsDoublingPair(i) \/ IsOrdinaryPair(i)

\* C10: in a batch_add batch a pair dest[i] = src[i] = P, P not the identity
\* and P.y # 0, ends as 2P by the doubling formula (slope 3 P.x^2 / (2 P.y)),
\* alone or beside ordinary pairs, and those ordinary pairs end as the chord
\* sum.
C10_DoublingPath ==
    (/\ ba_op.name = "batch_add"
     /\ FitsBatchAdd
     /\ \E i \in 1 .. Len(old_dest) : IsDoublingPair(i) /\ src[i].y # 0) =>
        /\ ba_fatal = ""
        /\ \A i \in 1 .. Len(old_dest) :
               (IsDoublingPair(i) /\ src[i].y # 0) =>
                   LET k == FMul(FMul(3, FMul(src[i].x, src[i].x)),
                                 FInv(FMul(2, src[i].y)))
                       rx == FSub(FMul(k, k), FMul(2, src[i].x))
                   IN  dest[i] = Affine(rx, FSub(FMul(k, FSub(src[i].x, rx)),
                                                 src[i].y))
        /\ \A j \in 1 .. Len(old_dest) :
               IsOrdinaryPair(j) => dest[j] = GroupAdd(old_dest[j], src[j])

C10_Witness ==
    /\ ba_op.name = "batch_add"
    /\ ba_fatal = ""
    /\ Len(dest) = max_batch_cnt
    /\ \E i, j \in 1 .. Len(dest) :
        /\ IsDoublingPair(i) /\ dest[i] = PointDouble(src[i])
        /\ IsOrdinaryPair(j)

---------------------------------------------------------------------------
(* Claims on the primitives of BatchAdder, checked under SpecBA on the     *)
(* batches the driver runs through them                                    *)

\* pair k (from 1) of the batch in hand adds a non-identity point to its negation
IsNegationPair(k) ==
    ~old_dest[k].infinity /\ src[k] = Neg(old_dest[k])

\* C11: batch_add_phase_two on dest = P, src = -P, P not the identity, leaves
\* the identity in dest and changes neither inverse_state nor inverses,
\* whatever they hold; batch_add_phase_one on the same pair changes neither.
C11_NegationPath ==
    [][/\ (/\ pc = "two"
           /\ ba_op'.name = "batch_add_phase_two"
           /\ ~dest[cursor].infinity
           /\ src[cursor] = Neg(dest[cursor])) =>
              /\ dest' = [dest EXCEPT ![cursor] = Zero]
              /\ inverse_state' = inverse_state
              /\ inverses' = inverses
              /\ ba_fatal' = ""
       /\ (/\ pc = "one"
           /\ ba_op'.name = "batch_add_phase_one"
           /\ ~dest[cursor + 1].infinity
           /\ src[cursor + 1] = Neg(dest[cursor + 1])) =>
              /\ inverse_state' = inverse_state
              /\ inverses' = inverses
              /\ ba_fatal' = ""]_vars

C11_Witness ==
    /\ ba_op.name = "batch_add_phase_two"
    /\ ba_fatal = ""
    /\ cursor = 1
    /\ Len(dest) = 2
    /\ IsNegationPair(2)
    /\ dest[2] = Zero
    /\ inverse_state # 1

\* the driver has run a whole batch through the primitives
PhasesDone ==
    /\ pc = "idle"
    /\ ba_fatal = ""
    /\ ba_op.name \in {"inverse", "batch_add_phase_two"}

\* C12: on an adder that is fresh or has only run completed batches, phase one
\* for the indices 0 .. n-1, inverse() once and phase two for n-1 .. 0, with no
\* reset() before them, leave in dest the values batch_add leaves there on the
\* same dest and src.
C12_PhasesEqualBatchAdd ==
    (PhasesDone /\ resets = 0) =>
        LET r == batch_add(Adder(0), old_dest, src)
        IN  /\ r.a.fatal = ""
            /\ dest = r.dest

C12_Witness ==
    /\ PhasesDone
    /\ resets = 0
    /\ Len(dest) = max_batch_cnt
    /\ \E k \in 1 .. Len(inverses) : inverses[k] # 1
    /\ \A i \in 1 .. Len(dest) : IsDoublingPair(i) \/ IsOrdinaryPair(i)
    /\ \A i \in 1 .. Len(dest) : dest[i] # old_dest[i]

\* pair k (from 1) of the batch in hand takes part in the shared inversion:
\* neither point is the identity and the two are not each other's negation
TakesPart(k) ==
    /\ ~old_dest[k].infinity
    /\ ~src[k].infinity
    /\ ~(FSub(src[k].x, old_dest[k].x) = 0 /\ FSub(src[k].y, old_dest[k].y) # 0)

\* the delta of pair k: the x-difference, 2 * Q.y for a doubling pair; a pair
\* that takes no part contributes no factor
DeltaOf(k) ==
    IF ~TakesPart(k) THEN 1
    ELSE IF FSub(src[k].x, old_dest[k].x) = 0 THEN FAdd(src[k].y, src[k].y)
    ELSE FSub(src[k].x, old_dest[k].x)

\* the product of the deltas of the pairs lo .. hi
RECURSIVE DeltaProduct(_, _)
DeltaProduct(lo, hi) ==
    IF hi < lo THEN 1 ELSE FMul(DeltaProduct(lo, hi - 1), DeltaOf(hi))

\* reset() and phase one for every index of the batch have run, inverse() not yet
PhaseOneDone ==
    /\ pc = "one"
    /\ ba_fatal = ""
    /\ resets = 1
    /\ cursor = Len(dest)

PhaseTwoAt ==
    /\ pc = "two"
    /\ ba_fatal = ""
    /\ resets = 1

\* C16 as stated: when the right-to-left pass is about to process index i,
\* inverse_state is the product of the inverses of the deltas of the indices
\* from i to the last index of the batch.
C16_StateInvertsRightPart ==
    PhaseTwoAt => inverse_state = FInv(DeltaProduct(cursor, Len(dest)))

\* C16, amended: when the right-to-left pass is about to process index i,
\* inverse_state is the product of the inverses of the deltas of the indices
\* from the first index of the batch to i.
C16_StateInvertsLeftPart ==
    PhaseTwoAt => inverse_state = FInv(DeltaProduct(1, cursor))

C16_Witness ==
    /\ PhaseTwoAt
    /\ Len(dest) = max_batch_cnt
    /\ cursor = Len(dest) - 1
    /\ \A i \in 1 .. Len(dest) : TakesPart(i)
    /\ inverse_state # 1
    /\ inverse_state # FInv(DeltaProduct(1, Len(dest)))

\* C20: after every batch_add call that returns, whatever the batch size and
\* the mix of ordinary, doubling, negation and identity pairs, inverse_state
\* is 1.
C20_StateReturnsToOne ==
    (ba_op.name = "batch_add" /\ ba_fatal = "") => inverse_state = 1

C20_Witness ==
    /\ ba_op.name = "batch_add"
    /\ ba_fatal = ""
    /\ inverse_state = 1
    /\ Len(dest) = max_batch_cnt
    /\ \E i, j \in 1 .. Len(dest) :
        /\ IsDoublingPair(i)
        /\ IsOrdinaryPair(j)
        /\ inverses[j] # 1

---------------------------------------------------------------------------
(* Claims on the slots of CollisionState, checked under SpecCS *)

\* C13: the data of slot i, as get_entry_data(i) returns it, is the payload of
\* the add_unprocessed call that last returned i: that call stores its
\* argument there, and no dequeue_unprocessed, mark_entry_processing,
\* mark_entry_unprocessed, free_processing or add_unprocessed returning
\* another index changes it.
C13_PayloadStable ==
    [][/\ \A i \in Indices :
            get_entry_data(i)' # get_entry_data(i) =>
                cs_op'.name = "add_unprocessed" /\ cs_op'.ret = i
       /\ \A i \in Indices :
            (adds' # adds /\ cs_op'.ret = i) =>
                get_entry_data(i)' = cs_op'.arg]_vars

C13_Witness ==
    /\ cs_op.name = "add_unprocessed"
    /\ cs_fatal = ""
    /\ cs_op.arg >= 4
    /\ get_entry_data(cs_op.ret) = cs_op.arg
    /\ \E i \in Indices \ {cs_op.ret} :
        /\ get_entry_data(i) = 1
        /\ \E k \in 1 .. Len(QueueSeq(processing)) : QueueSeq(processing)[k] = i

\* the slots among the indices seq
SlotsOf(seq) == {seq[k] : k \in 1 .. Len(seq)}

\* the slots of the chain was that the chain is no longer holds
Gone(was, is) == IF was = is THEN {} ELSE SlotsOf(was) \ SlotsOf(is)

\* C14: under the driver protocol a slot leaves free only through
\* add_unprocessed, into unprocessed; enters processing only through
\* mark_entry_processing, from the driver's hands after dequeue_unprocessed
\* returned it; enters free only through free_processing, from processing; no
\* call moves a slot from unprocessed to free or from processing to
\* unprocessed. (q holds the chains of free, processing and unprocessed before
\* the step, then after it.)
C14_SlotLifecycle ==
    [][\A q \in {<<Linked(entries, free), Linked(entries, processing),
                   Linked(entries, unprocessed), Linked(entries', free'),
                   Linked(entries', processing'),
                   Linked(entries', unprocessed')>>} :
        /\ \A i \in Gone(q[1], q[4]) :
             /\ cs_op'.name = "add_unprocessed"
             /\ cs_op'.ret = i
             /\ i \in SlotsOf(q[6])
        /\ \A i \in Gone(q[5], q[2]) :
             /\ cs_op'.name = "mark_entry_processing"
             /\ cs_op'.arg = i
             /\ i \in held
             /\ i \notin SlotsOf(q[1]) \cup SlotsOf(q[3])
        /\ \A i \in Gone(q[4], q[1]) :
             /\ cs_op'.name = "free_processing"
             /\ i \in SlotsOf(q[2])
             /\ i \notin SlotsOf(q[3])
        /\ \A i \in Gone(q[6], q[3]) : i \notin SlotsOf(q[2])]_vars

C14_Witness ==
    /\ cs_op.name = "free_processing"
    /\ cs_fatal = ""
    /\ held # {}
    /\ ~is_empty(unprocessed)
    /\ is_empty(processing)
    /\ Len(QueueSeq(free)) = 2
    /\ free.head # 0
    /\ free.tail = 0

\* no dequeued entry is outstanding, processing holds at most
\* max_collision_count entries and the threshold check is false
RoomExpected ==
    /\ held = {}
    /\ Len(QueueSeq(processing)) <= max_collision_count
    /\ ~reaches_max_collision_count

\* C17: in every reachable state with no dequeued entry outstanding, at most
\* max_collision_count entries in processing and reaches_max_collision_count()
\* false, free is not empty, and add_unprocessed called there returns a slot
\* without the fatal error.
C17_PoolSuffices ==
    /\ [](RoomExpected => ~is_empty(free))
    /\ [][(RoomExpected /\ adds' # adds) =>
            /\ cs_fatal' = ""
            /\ cs_op'.name = "add_unprocessed"
            /\ cs_op'.ret = free.head
            /\ collision_count' = collision_count + 1]_vars

C17_Witness ==
    /\ cs_op.name = "add_unprocessed"
    /\ cs_fatal = ""
    /\ held = {}
    /\ is_empty(free)
    /\ Len(QueueSeq(processing)) = max_collision_count
    /\ collision_count = max_collision_count

\* a queue is empty with head and tail both NIL, or head and tail are pool
\* indices, the next links from head pass through each entry once and end at
\* tail, and the next of tail is NIL
WellFormed(queue) ==
    LET seq == QueueSeq(queue)
    IN  /\ queue.head = NIL <=> queue.tail = NIL
        /\ queue.head = NIL <=> seq = <<>>
        /\ queue.head # NIL =>
            /\ queue.head \in Indices
            /\ queue.tail \in Indices
            /\ Len(seq) <= max_size
            /\ \A k, m \in 1 .. Len(seq) : seq[k] = seq[m] => k = m
            /\ seq[1] = queue.head
            /\ seq[Len(seq)] = queue.tail
            /\ entries[queue.tail].next = NIL

\* C18: after any sequence of operations that follows the driver protocol,
\* free, processing and unprocessed are each well formed: head is NIL iff tail
\* is NIL iff the queue holds nothing; otherwise both are pool indices and the
\* next links from head visit each entry once, reach tail and end there.
C18_QueuesWellFormed ==
    /\ WellFormed(free)
    /\ WellFormed(processing)
    /\ WellFormed(unprocessed)

C18_Witness ==
    /\ cs_op.name = "free_processing"
    /\ held = {}
    /\ Len(QueueSeq(free)) = max_size - 1
    /\ Len(QueueSeq(unprocessed)) = 1
    /\ free.tail = 0
    /\ entries[0].next = NIL
    /\ is_empty(processing)

\* C19: add_unprocessed and mark_entry_unprocessed append their slot at the
\* end of unprocessed, a dequeue_unprocessed that returns takes the first slot
\* of unprocessed and lowers collision_count by one, and no other call changes
\* the order: slots come back in the order they were appended, a re-enqueued
\* slot after those that were already waiting.
C19_UnprocessedFifo ==
    [][LET before == Linked(entries, unprocessed)
           after == Linked(entries', unprocessed')
       IN  /\ (cs_op'.name = "dequeue_unprocessed" /\ cs_fatal' = "") =>
                /\ before # <<>>
                /\ cs_op'.ret = Head(before)
                /\ after = Tail(before)
                /\ collision_count' = collision_count - 1
           /\ (cs_op'.name = "add_unprocessed" /\ cs_fatal' = "") =>
                after = Append(before, cs_op'.ret)
           /\ cs_op'.name = "mark_entry_unprocessed" =>
                after = Append(before, cs_op'.arg)
           /\ cs_op'.name \in {"mark_entry_processing", "free_processing"} =>
                after = before]_vars

C19_Witness ==
    /\ cs_op.name = "dequeue_unprocessed"
    /\ cs_fatal = ""
    /\ cs_op.ret = 0
    /\ held = {0, 1}
    /\ adds = 2
    /\ is_empty(unprocessed)
    /\ is_empty(processing)

===========================================================================
